---------------------------- MODULE Spec2Model ----------------------------
(***************************************************************************)
(* A model of darshan_agg.py: the record collections (DXT_POSIX_coll,      *)
(* counters_coll, fcounters_coll and their per-module subclasses), the     *)
(* directory scan, the metadata table builder, the parquet writer and the  *)
(* orchestrator aggregate_darshan.                                         *)
(*                                                                         *)
(* Python values are modelled as follows.  A str is a TLA+ string, except  *)
(* for directory entry names, which are sequences of one-character strings *)
(* so that os.path.splitext can look at their characters.  A list is a     *)
(* sequence.  A dict whose iteration order the code never uses is a        *)
(* function; a dict whose key order the code iterates over is a record     *)
(* [keys, val].  A pandas table is an opaque table name.  A raised         *)
(* exception is a result record with raised = TRUE.                        *)
(***************************************************************************)
EXTENDS Integers, Sequences, FiniteSets, TLC

VARIABLES
    call,   \* unit specifications: the function that has been applied
    arg,    \* unit specifications: the input drawn for it
    ret,    \* unit specifications: what it returned
    pc,         \* aggregate_darshan: where the run stands
    agg_directory,  \* the input directory: [kind, listing]
    traces,     \* entry name -> content of that trace file
    out,        \* the output location: [kind, files]
    out0,       \* the output location as it was before the run
    agg_files,      \* the list collect_logfiles returned
    fi,         \* index in the list of the file being read, or next to be read
    open,       \* the files whose DarshanReport is open
    opened,     \* the files whose DarshanReport has been opened, in order
    collected_report_data,  \* the batch mapping: name -> read_log's output
    agg_metadata_df,            \* the metadata table
    loads,      \* the record-loading calls issued to the trace library
    prints,     \* what was printed outside debug mode
    exports,    \* the export_parquet invocations of write_to_parquet
    writes,     \* the to_parquet file writes, in order
    error,      \* the exception that ended the run
    wi          \* write_to_parquet: index of the next job to export

unit_vars == <<call, arg, ret>>

run_vars ==
    <<pc, agg_directory, traces, out, out0, agg_files, fi, open, opened,
      collected_report_data, agg_metadata_df, loads, prints, exports, writes,
      error, wi>>

vars == <<unit_vars, run_vars>>

(***************************************************************************)
(* Bounds.                                                                 *)
(***************************************************************************)
\* Longest record list handed to a collection constructor.
MaxRecs == 2

None == "None"

\* The run variables in a unit specification: no run is under way.
RunIdle ==
    /\ pc = "unit"
    /\ agg_directory = None
    /\ traces = None
    /\ out = None
    /\ out0 = None
    /\ agg_files = <<>>
    /\ fi = 0
    /\ open = {}
    /\ opened = <<>>
    /\ collected_report_data = None
    /\ agg_metadata_df = None
    /\ loads = <<>>
    /\ prints = <<>>
    /\ exports = <<>>
    /\ writes = <<>>
    /\ error = None
    /\ wi = 0

(***************************************************************************)
(* Python helpers.                                                         *)
(***************************************************************************)
EmptyDict == [k \in {} |-> None]

\* d[k] = v on a dict whose order is never used.
DictSet(d, k, v) == [x \in (DOMAIN d) \cup {k} |-> IF x = k THEN v ELSE d[x]]

\* sep.join(parts) for a list of str.
RECURSIVE str_join(_, _)
str_join(sep, parts) ==
    IF Len(parts) = 0 THEN ""
    ELSE IF Len(parts) = 1 THEN parts[1]
    ELSE parts[1] \o sep \o str_join(sep, Tail(parts))

\* str(i) of an int.
str(i) == ToString(i)

\* os.path.join(directory, name): the entry `name` of `directory`.
os_path_join(directory, name) == [dir |-> directory, name |-> name]

\* table.to_parquet(path): one file write.
to_parquet(table, path) == [path |-> path, table |-> table]

SeqsUpTo(S, n) == UNION {[1..k -> S] : k \in 0..n}

(***************************************************************************)
(* class DXT_POSIX_metadata                                                *)
(***************************************************************************)
DXT_POSIX_metadata(i_id, i_rank, i_hostname, i_write, i_read) ==
    [id |-> i_id, rank |-> i_rank, hostname |-> i_hostname,
     write_count |-> i_write, read_count |-> i_read]

to_filename(self) ==
    str_join("_", <<str(self.id), str(self.rank), self.hostname>>)

(***************************************************************************)
(* class DXT_POSIX_coll                                                    *)
(***************************************************************************)
\* Mutant: the uniqueness test is dropped, a repeated id overwrites.
RECURSIVE DXT_POSIX_coll_loop_nocheck(_, _, _)
DXT_POSIX_coll_loop_nocheck(posix_records, i, self) ==
    IF i > Len(posix_records) THEN self
    ELSE LET record == posix_records[i]
             record_metadata ==
                 DXT_POSIX_metadata(record.id, record.rank, record.hostname,
                                    record.read_count, record.write_count)
         IN  DXT_POSIX_coll_loop_nocheck(posix_records, i + 1,
                 [self EXCEPT
                    !.metadata = Append(@, record_metadata),
                    !.read_segments =
                        DictSet(@, record_metadata.id, record.read_segments),
                    !.write_segments =
                        DictSet(@, record_metadata.id, record.write_segments)])

\* The loop of __init__ from record i on; self is the object built so far.
RECURSIVE DXT_POSIX_coll_loop(_, _, _)
DXT_POSIX_coll_loop(posix_records, i, self) ==
    IF i > Len(posix_records) THEN self
    ELSE LET record == posix_records[i]
             record_metadata ==
                 DXT_POSIX_metadata(record.id, record.rank, record.hostname,
                                    record.read_count, record.write_count)
         IN  IF record_metadata.id \in DOMAIN self.read_segments
             THEN [self EXCEPT
                     !.raised = TRUE,
                     !.metadata = Append(@, record_metadata)]
             ELSE DXT_POSIX_coll_loop(posix_records, i + 1,
                     [self EXCEPT
                        !.metadata = Append(@, record_metadata),
                        !.read_segments =
                            DictSet(@, record_metadata.id, record.read_segments),
                        !.write_segments =
                            DictSet(@, record_metadata.id, record.write_segments)])

DXT_POSIX_coll(posix_records) ==
    DXT_POSIX_coll_loop(posix_records, 1,
        [cls |-> "DXT_POSIX_coll", raised |-> FALSE, metadata |-> <<>>,
         read_segments |-> EmptyDict, write_segments |-> EmptyDict])

\* DXT_POSIX_coll.export_parquet: the file writes, in order.
RECURSIVE DXT_POSIX_export_loop(_, _, _, _)
DXT_POSIX_export_loop(self, directory, prefix, i) ==
    IF i > Len(self.metadata) THEN <<>>
    ELSE LET record == self.metadata[i]
             file_prefix == "DXTPOSIX"
             file_suffix == ".parquet"
             file_id_prefix == to_filename(record)
             read_filename ==
                 file_prefix \o "_" \o prefix \o "_" \o file_id_prefix
                     \o "_read_segments" \o file_suffix
             write_filename ==
                 file_prefix \o "_" \o prefix \o "_" \o file_id_prefix
                     \o "_write_segments" \o file_suffix
         IN  <<to_parquet(self.read_segments[record.id],
                          os_path_join(directory, read_filename)),
               to_parquet(self.write_segments[record.id],
                          os_path_join(directory, write_filename))>>
             \o DXT_POSIX_export_loop(self, directory, prefix, i + 1)

DXT_POSIX_export_parquet(self, directory, prefix) ==
    DXT_POSIX_export_loop(self, directory, prefix, 1)

(***************************************************************************)
(* class counters_coll and LUSTRE_coll                                     *)
(***************************************************************************)
\* Mutant: the first record of an identity is kept, later ones are dropped.
RECURSIVE counters_coll_loop_first(_, _, _)
counters_coll_loop_first(records, i, self) ==
    IF i > Len(records) THEN self
    ELSE LET record == records[i]
             record_metadata == <<record.rank, record.id>>
         IN  counters_coll_loop_first(records, i + 1,
                 [self EXCEPT
                    !.metadata = Append(@, record_metadata),
                    !.counters =
                        IF record_metadata \in DOMAIN @ THEN @
                        ELSE DictSet(@, record_metadata, record.counters)])

RECURSIVE counters_coll_loop(_, _, _)
counters_coll_loop(records, i, self) ==
    IF i > Len(records) THEN self
    ELSE LET record == records[i]
             record_metadata == <<record.rank, record.id>>
         IN  counters_coll_loop(records, i + 1,
                 [self EXCEPT
                    !.metadata = Append(@, record_metadata),
                    !.counters = DictSet(@, record_metadata, record.counters)])

counters_coll(records) ==
    counters_coll_loop(records, 1,
        [cls |-> "counters_coll", metadata |-> <<>>, counters |-> EmptyDict])

_file_fillers(module_name) ==
    [file_prefix |-> module_name \o "_", file_suffix |-> ".parquet"]

\* "_".join(str(i) for i in record) of a (rank, id) tuple.
file_id_prefix_of(record) ==
    str_join("_", [i \in 1..Len(record) |-> str(record[i])])

\* Mutant: one write per stored key instead of one per metadata entry
\* (the keys taken in order of first appearance).
RECURSIVE counters_export_loop_dedup(_, _, _, _, _)
counters_export_loop_dedup(self, module_name, directory, prefix, i) ==
    IF i > Len(self.metadata) THEN <<>>
    ELSE LET record == self.metadata[i]
             ff == _file_fillers(module_name)
             counters_filename ==
                 ff.file_prefix \o prefix \o "_" \o file_id_prefix_of(record)
                     \o "_counters" \o ff.file_suffix
             seen == \E j \in 1..(i - 1) : self.metadata[j] = record
         IN  (IF seen THEN <<>>
              ELSE <<to_parquet(self.counters[record],
                                os_path_join(directory, counters_filename))>>)
             \o counters_export_loop_dedup(self, module_name, directory,
                                           prefix, i + 1)

\* counters_coll.export_parquet: the file writes, in order.
RECURSIVE counters_export_loop(_, _, _, _, _)
counters_export_loop(self, module_name, directory, prefix, i) ==
    IF i > Len(self.metadata) THEN <<>>
    ELSE LET record == self.metadata[i]
             ff == _file_fillers(module_name)
             counters_filename ==
                 ff.file_prefix \o prefix \o "_" \o file_id_prefix_of(record)
                     \o "_counters" \o ff.file_suffix
         IN  <<to_parquet(self.counters[record],
                          os_path_join(directory, counters_filename))>>
             \o counters_export_loop(self, module_name, directory, prefix, i + 1)

counters_export_parquet(self, module_name, directory, prefix) ==
    counters_export_loop(self, module_name, directory, prefix, 1)

LUSTRE_coll(records) == [counters_coll(records) EXCEPT !.cls = "LUSTRE_coll"]

(***************************************************************************)
(* class fcounters_coll, STDIO_coll and POSIX_coll                         *)
(***************************************************************************)
RECURSIVE fcounters_coll_loop(_, _, _)
fcounters_coll_loop(records, i, self) ==
    IF i > Len(records) THEN self
    ELSE LET record == records[i]
             record_metadata == <<record.rank, record.id>>
         IN  fcounters_coll_loop(records, i + 1,
                 [self EXCEPT
                    !.metadata = Append(@, record_metadata),
                    !.counters = DictSet(@, record_metadata, record.counters),
                    !.fcounters = DictSet(@, record_metadata, record.fcounters)])

fcounters_coll(records) ==
    fcounters_coll_loop(records, 1,
        [cls |-> "fcounters_coll", metadata |-> <<>>,
         counters |-> EmptyDict, fcounters |-> EmptyDict])

RECURSIVE fcounters_export_loop(_, _, _, _, _)
fcounters_export_loop(self, module_name, directory, prefix, i) ==
    IF i > Len(self.metadata) THEN <<>>
    ELSE LET record == self.metadata[i]
             ff == _file_fillers(module_name)
             fcounters_filename ==
                 ff.file_prefix \o prefix \o "_" \o file_id_prefix_of(record)
                     \o "_fcounters" \o ff.file_suffix
         IN  <<to_parquet(self.fcounters[record],
                          os_path_join(directory, fcounters_filename))>>
             \o fcounters_export_loop(self, module_name, directory, prefix, i + 1)

fcounters_export_parquet(self, module_name, directory, prefix) ==
    counters_export_parquet(self, module_name, directory, prefix)
        \o fcounters_export_loop(self, module_name, directory, prefix, 1)

STDIO_coll(records) == [fcounters_coll(records) EXCEPT !.cls = "STDIO_coll"]

POSIX_coll(records) == [fcounters_coll(records) EXCEPT !.cls = "POSIX_coll"]

\* obj.export_parquet(directory, prefix), dispatched on the object's class.
export_parquet(obj, directory, prefix) ==
    CASE obj.cls = "LUSTRE_coll" ->
            counters_export_parquet(obj, "LUSTRE", directory, prefix)
      [] obj.cls = "STDIO_coll" ->
            fcounters_export_parquet(obj, "STDIO", directory, prefix)
      [] obj.cls = "POSIX_coll" ->
            fcounters_export_parquet(obj, "POSIX", directory, prefix)
      [] obj.cls = "DXT_POSIX_coll" ->
            DXT_POSIX_export_parquet(obj, directory, prefix)


(***************************************************************************)
(* Inputs of the collection constructors.                                  *)
(***************************************************************************)
Ranks == {-1, 0}
Ids == {7, 8}
Hostnames == {"h1", "h2"}

\* Raw records of a counters module (POSIX, STDIO; LUSTRE reads only counters).
Records ==
    [rank : Ranks, id : Ids, counters : {"cA", "cB"}, fcounters : {"fA", "fB"}]

\* Raw records of the DXT_POSIX module.
DXTPayloads ==
    { [read_count |-> 1, write_count |-> 2,
       read_segments |-> "rA", write_segments |-> "wA"],
      [read_count |-> 2, write_count |-> 1,
       read_segments |-> "rB", write_segments |-> "wB"] }

DXTRecords ==
    { [id |-> i, rank |-> r, hostname |-> h,
       read_count |-> p.read_count, write_count |-> p.write_count,
       read_segments |-> p.read_segments, write_segments |-> p.write_segments] :
      i \in Ids, r \in {0, 1}, h \in Hostnames, p \in DXTPayloads }

Prefixes == {"u1_42", "1_43"}

CounterClasses == {"LUSTRE_coll", "STDIO_coll", "POSIX_coll"}

ModuleOfClass(cls) ==
    CASE cls = "LUSTRE_coll" -> "LUSTRE"
      [] cls = "STDIO_coll" -> "STDIO"
      [] cls = "POSIX_coll" -> "POSIX"

\* cls(records): the constructor of the named class.
construct(cls, records) ==
    CASE cls = "LUSTRE_coll" -> LUSTRE_coll(records)
      [] cls = "STDIO_coll" -> STDIO_coll(records)
      [] cls = "POSIX_coll" -> POSIX_coll(records)
      [] cls = "DXT_POSIX_coll" -> DXT_POSIX_coll(records)

(***************************************************************************)
(* SpecDXT: DXT_POSIX_coll(posix_records) on every record list.            *)
(***************************************************************************)
InitDXT ==
    /\ call = "none"
    /\ arg \in [records : SeqsUpTo(DXTRecords, MaxRecs)]
    /\ ret = None
    /\ RunIdle

NewDXT ==
    /\ call = "none"
    /\ call' = "DXT_POSIX_coll"
    /\ ret' = DXT_POSIX_coll(arg.records)
    /\ UNCHANGED <<arg, run_vars>>

NextDXT == NewDXT

SpecDXT == InitDXT /\ [][NextDXT]_vars

(***************************************************************************)
(* SpecColl: construction and export of the counters collections.          *)
(***************************************************************************)
InitColl ==
    /\ call = "none"
    /\ arg \in [cls : CounterClasses, records : SeqsUpTo(Records, MaxRecs),
                directory : {"parquet"}, prefix : Prefixes]
    /\ ret = None
    /\ RunIdle

NewColl ==
    /\ call = "none"
    /\ call' = "init"
    /\ ret' = [obj |-> construct(arg.cls, arg.records)]
    /\ UNCHANGED <<arg, run_vars>>

ExportColl ==
    /\ call = "init"
    /\ call' = "export"
    /\ ret' = [obj |-> ret.obj,
               writes |-> export_parquet(ret.obj, arg.directory, arg.prefix)]
    /\ UNCHANGED <<arg, run_vars>>

NextColl == NewColl \/ ExportColl

SpecColl == InitColl /\ [][NextColl]_vars

(***************************************************************************)
(* Claims about the collections.                                           *)
(***************************************************************************)
IdsDistinct(records) ==
    \A i, j \in 1..Len(records) : records[i].id = records[j].id => i = j

\* C5: DXT_POSIX_coll on a record list with pairwise distinct ids succeeds,
\* and read_segments[id] / write_segments[id] are the read and write segment
\* tables of the record with that id, with no other key; on a list in which
\* two records share an id (whatever their rank and hostname) it raises.
C5_DXTUniqueIds ==
    call = "DXT_POSIX_coll" =>
        IF IdsDistinct(arg.records)
        THEN /\ ~ret.raised
             /\ DOMAIN ret.read_segments =
                    {arg.records[i].id : i \in 1..Len(arg.records)}
             /\ DOMAIN ret.write_segments = DOMAIN ret.read_segments
             /\ \A i \in 1..Len(arg.records) :
                    /\ ret.read_segments[arg.records[i].id]
                           = arg.records[i].read_segments
                    /\ ret.write_segments[arg.records[i].id]
                           = arg.records[i].write_segments
        ELSE ret.raised

\* C5 witness: two records share an id but differ in rank and hostname, and
\* the constructor has raised.
C5_Witness ==
    /\ call = "DXT_POSIX_coll"
    /\ Len(arg.records) = 2
    /\ arg.records[1].id = arg.records[2].id
    /\ arg.records[1].rank # arg.records[2].rank
    /\ arg.records[1].hostname # arg.records[2].hostname
    /\ ret.raised

\* C12: the metadata entry built for each record passed to DXT_POSIX_coll
\* carries that record's own values field for field: id, rank, hostname,
\* read_count and write_count equal the record's (the read and write counts
\* are never exchanged).
C12_MetadataFieldForField ==
    call = "DXT_POSIX_coll" =>
        \A i \in 1..Len(ret.metadata) :
            /\ ret.metadata[i].id = arg.records[i].id
            /\ ret.metadata[i].rank = arg.records[i].rank
            /\ ret.metadata[i].hostname = arg.records[i].hostname
            /\ ret.metadata[i].read_count = arg.records[i].read_count
            /\ ret.metadata[i].write_count = arg.records[i].write_count

\* The index of the last record of the list carrying identity k.
LastIndex(records, k) ==
    CHOOSE i \in 1..Len(records) :
        /\ <<records[i].rank, records[i].id>> = k
        /\ \A j \in (i + 1)..Len(records) : <<records[j].rank, records[j].id>> # k

Identities(records) ==
    {<<records[i].rank, records[i].id>> : i \in 1..Len(records)}

\* C6: after construction the counters mapping (and the fcounters mapping of
\* the counters+float-counters classes) has exactly one entry per distinct
\* (rank, id) pair of the input, keyed by that pair, and the entry holds the
\* table of the last input record carrying that pair.
C6_OneEntryPerIdentity ==
    call \in {"init", "export"} =>
        /\ DOMAIN ret.obj.counters = Identities(arg.records)
        /\ \A k \in Identities(arg.records) :
               ret.obj.counters[k]
                   = arg.records[LastIndex(arg.records, k)].counters
        /\ arg.cls \in {"STDIO_coll", "POSIX_coll"} =>
               /\ DOMAIN ret.obj.fcounters = Identities(arg.records)
               /\ \A k \in Identities(arg.records) :
                      ret.obj.fcounters[k]
                          = arg.records[LastIndex(arg.records, k)].fcounters

\* C6 witness: two records share a (rank, id) pair with different tables and
\* the collection has been built with a single entry.
C6_Witness ==
    /\ call = "init"
    /\ arg.cls = "LUSTRE_coll"
    /\ Len(arg.records) = 2
    /\ arg.records[1].rank = arg.records[2].rank
    /\ arg.records[1].id = arg.records[2].id
    /\ arg.records[1].counters # arg.records[2].counters
    /\ Cardinality(DOMAIN ret.obj.counters) = 1

\* The file <module>_<prefix>_<rank>_<id>_<kind>.parquet of the directory.
ExpectedFile(directory, module_name, prefix, k, kind) ==
    [dir |-> directory,
     name |-> module_name \o "_" \o prefix \o "_" \o ToString(k[1]) \o "_"
                  \o ToString(k[2]) \o "_" \o kind \o ".parquet"]

WritesTo(ws, path) == {i \in 1..Len(ws) : ws[i].path = path}

KindsOfClass(cls) ==
    IF cls = "LUSTRE_coll" THEN {"counters"} ELSE {"counters", "fcounters"}

ExpectedFiles(a, obj) ==
    {ExpectedFile(a.directory, ModuleOfClass(a.cls), a.prefix, k, kind) :
        k \in DOMAIN obj.counters, kind \in KindsOfClass(a.cls)}

\* C7 as stated: export performs exactly one write per stored identity (and
\* per table kind), to the file named after it, and writes no other file.
C7_OneWritePerIdentity ==
    call = "export" =>
        /\ \A k \in DOMAIN ret.obj.counters : \A kind \in KindsOfClass(arg.cls) :
               Cardinality(WritesTo(ret.writes,
                   ExpectedFile(arg.directory, ModuleOfClass(arg.cls),
                                arg.prefix, k, kind))) = 1
        /\ {ret.writes[i].path : i \in 1..Len(ret.writes)}
               = ExpectedFiles(arg, ret.obj)

RecordsWith(records, k) ==
    {i \in 1..Len(records) : <<records[i].rank, records[i].id>> = k}

\* C7 as amended: export performs one write per input record (per entry of
\* the metadata list) and table kind: the i-th write goes to the counters
\* file of the i-th record's identity and carries the table stored for that
\* identity, the fcounters writes follow in the same order; so the set of
\* files written is exactly one per stored identity and table kind, and a
\* file is written as many times as input records carry its identity.
C7_OneWritePerRecord ==
    call = "export" =>
        LET n == Len(arg.records)
            m == ModuleOfClass(arg.cls)
            key(i) == <<arg.records[i].rank, arg.records[i].id>>
        IN  /\ Len(ret.writes) = n * Cardinality(KindsOfClass(arg.cls))
            /\ \A i \in 1..n :
                   ret.writes[i] =
                       [path |-> ExpectedFile(arg.directory, m, arg.prefix,
                                              key(i), "counters"),
                        table |-> ret.obj.counters[key(i)]]
            /\ arg.cls # "LUSTRE_coll" =>
                   \A i \in 1..n :
                       ret.writes[n + i] =
                           [path |-> ExpectedFile(arg.directory, m, arg.prefix,
                                                  key(i), "fcounters"),
                            table |-> ret.obj.fcounters[key(i)]]
            /\ {ret.writes[i].path : i \in 1..Len(ret.writes)}
                   = ExpectedFiles(arg, ret.obj)
            /\ \A k \in DOMAIN ret.obj.counters :
                   \A kind \in KindsOfClass(arg.cls) :
                       Cardinality(WritesTo(ret.writes,
                           ExpectedFile(arg.directory, m, arg.prefix, k, kind)))
                         = Cardinality(RecordsWith(arg.records, k))
            /\ (arg.cls = "LUSTRE_coll" /\ arg.prefix = "u1_42"
                  /\ n = 1 /\ key(1) = <<0, 7>>) =>
                   {ret.writes[i].path.name : i \in 1..Len(ret.writes)}
                       = {"LUSTRE_u1_42_0_7_counters.parquet"}

\* C7 witness: a LUSTRE collection built from two records of one identity
\* has been exported: one file, written twice.
C7_Witness ==
    /\ call = "export"
    /\ arg.cls = "LUSTRE_coll"
    /\ Len(arg.records) = 2
    /\ Cardinality(DOMAIN ret.obj.counters) = 1
    /\ Len(ret.writes) = 2
    /\ ret.writes[1].path = ret.writes[2].path

(***************************************************************************)
(* os.path helpers on entry names (sequences of characters).               *)
(***************************************************************************)
SetMax(S) == CHOOSE m \in S : \A x \in S : x <= m

\* p.rfind(ch), 1-based; 0 when ch does not occur.
rfind(p, ch) ==
    LET S == {i \in 1..Len(p) : p[i] = ch}
    IN  IF S = {} THEN 0 ELSE SetMax(S)

\* os.path.splitext(p): the extension starts at the last dot after the last
\* separator, unless only dots come before it in the file name.
splitext(p) ==
    LET sepIndex == rfind(p, "/")
        dotIndex == rfind(p, ".")
    IN  IF /\ dotIndex > sepIndex
           /\ \E filenameIndex \in (sepIndex + 1)..(dotIndex - 1) :
                  p[filenameIndex] # "."
        THEN <<SubSeq(p, 1, dotIndex - 1), SubSeq(p, dotIndex, Len(p))>>
        ELSE <<p, <<>>>>

\* os.path.isfile of a directory entry.
os_path_isfile(entry) == entry.kind = "file"

DotDarshan == <<".", "d", "a", "r", "s", "h", "a", "n">>

(***************************************************************************)
(* collect_logfiles(directory): directory is [kind, listing], listing the  *)
(* entries in os.listdir order.                                            *)
(***************************************************************************)
\* Mutant: the regular-file filter is dropped.
collect_logfiles_anykind(directory) ==
    IF directory.kind = "missing" THEN [raised |-> TRUE, error |-> "not_exist"]
    ELSE IF directory.kind # "dir" THEN [raised |-> TRUE, error |-> "not_dir"]
    ELSE LET IsLog(e) == splitext(e.name)[2] = DotDarshan
             logfiles == SelectSeq(directory.listing, IsLog)
         IN  [raised |-> FALSE,
              logfiles |-> [i \in 1..Len(logfiles) |-> logfiles[i].name]]

collect_logfiles(directory) ==
    IF directory.kind = "missing" THEN [raised |-> TRUE, error |-> "not_exist"]
    ELSE IF directory.kind # "dir" THEN [raised |-> TRUE, error |-> "not_dir"]
    ELSE LET IsLog(e) == splitext(e.name)[2] = DotDarshan
             files == SelectSeq(directory.listing, os_path_isfile)
             logfiles == SelectSeq(files, IsLog)
         IN  [raised |-> FALSE,
              logfiles |-> [i \in 1..Len(logfiles) |-> logfiles[i].name]]

(***************************************************************************)
(* SpecScan: collect_logfiles on every small directory.                    *)
(***************************************************************************)
\* Most entries of a scanned directory.
MaxEntries == 3

EntryNames ==
    { <<"a">> \o DotDarshan,
      <<"b">> \o DotDarshan \o <<"_", "p", "a", "r", "t", "i", "a", "l">>,
      <<"c", ".", "t", "x", "t">>,
      <<"x">> \o DotDarshan,
      <<"a", ".", "b">> \o DotDarshan,
      DotDarshan,
      <<".">> \o DotDarshan,
      <<"d", "a", "r", "s", "h", "a", "n">> }

EntryKinds == {"file", "dir", "other"}

Entries == [name : EntryNames, kind : EntryKinds]

\* Listings: entries in some order, no name twice.
Listings(n) ==
    {l \in SeqsUpTo(Entries, n) :
        \A i, j \in 1..Len(l) : l[i].name = l[j].name => i = j}

InitScan ==
    /\ call = "none"
    /\ \/ arg \in [kind : {"dir"}, listing : Listings(MaxEntries)]
       \/ arg \in [kind : {"file", "missing"}, listing : {<<>>}]
    /\ ret = None
    /\ RunIdle

Scan ==
    /\ call = "none"
    /\ call' = "collect_logfiles"
    /\ ret' = collect_logfiles(arg)
    /\ UNCHANGED <<arg, run_vars>>

NextScan == Scan

SpecScan == InitScan /\ [][NextScan]_vars

\* The text of a name from its last dot on (empty when it has no dot).
FromLastDot(name) ==
    IF rfind(name, ".") = 0 THEN <<>>
    ELSE SubSeq(name, rfind(name, "."), Len(name))

SeqRange(q) == {q[i] : i \in 1..Len(q)}

\* C4 as stated: the scan of an existing directory returns exactly the names
\* of the regular files whose text from the last dot on is ".darshan".
C4_ExactlyLastDotDarshan ==
    (call = "collect_logfiles" /\ arg.kind = "dir") =>
        /\ ~ret.raised
        /\ SeqRange(ret.logfiles) =
               {e.name : e \in {x \in SeqRange(arg.listing) :
                   x.kind = "file" /\ FromLastDot(x.name) = DotDarshan}}

\* A name that ends in ".darshan" after a stem holding a character other
\* than a dot.
HasDarshanExt(name) ==
    /\ Len(name) > Len(DotDarshan)
    /\ SubSeq(name, Len(name) - Len(DotDarshan) + 1, Len(name)) = DotDarshan
    /\ \E k \in 1..(Len(name) - Len(DotDarshan)) : name[k] # "."

\* C4 as amended: the scan of an existing directory returns, in listing
\* order and each once, exactly the names of the regular files whose
\* os.path.splitext extension is ".darshan": the text from the last dot on,
\* provided a character other than a dot comes before that dot (a file
\* named ".darshan" or "..darshan" has no extension and is not returned).
C4_ExactlySplitextDarshan ==
    (call = "collect_logfiles" /\ arg.kind = "dir") =>
        LET Want(e) == e.kind = "file" /\ HasDarshanExt(e.name)
            wanted == SelectSeq(arg.listing, Want)
        IN  /\ ~ret.raised
            /\ ret.logfiles = [i \in 1..Len(wanted) |-> wanted[i].name]
            /\ \A e \in SeqRange(arg.listing) :
                   e.name \in SeqRange(ret.logfiles) <=> Want(e)
            /\ (\A e \in SeqRange(arg.listing) : e.kind = "file")
                 /\ {e.name : e \in SeqRange(arg.listing)} =
                      { <<"a">> \o DotDarshan,
                        <<"b">> \o DotDarshan
                            \o <<"_", "p", "a", "r", "t", "i", "a", "l">>,
                        <<"c", ".", "t", "x", "t">> }
               => ret.logfiles = << <<"a">> \o DotDarshan >>

\* C4 witness: a directory holding a.darshan (file), b.darshan_partial
\* (file) and a sub-directory x.darshan has been scanned: only a.darshan.
C4_Witness ==
    /\ call = "collect_logfiles"
    /\ arg.kind = "dir"
    /\ Len(arg.listing) = 3
    /\ [name |-> <<"a">> \o DotDarshan, kind |-> "file"] \in SeqRange(arg.listing)
    /\ [name |-> <<"x">> \o DotDarshan, kind |-> "dir"] \in SeqRange(arg.listing)
    /\ \E e \in SeqRange(arg.listing) :
           e.kind = "file" /\ FromLastDot(e.name) # DotDarshan
    /\ ret.logfiles = << <<"a">> \o DotDarshan >>


(***************************************************************************)
(* Ordered dicts (key order = insertion order, kept on overwrite).         *)
(***************************************************************************)
EmptyOrderedDict == [keys |-> <<>>, val |-> EmptyDict]

\* d[k] = v
OrderedDictSet(d, k, v) ==
    [keys |-> IF k \in DOMAIN d.val THEN d.keys ELSE Append(d.keys, k),
     val |-> DictSet(d.val, k, v)]

(***************************************************************************)
(* generate_name_for_report and move_metadata_into_dataframe               *)
(***************************************************************************)
generate_name_for_report(report) ==
    LET job_metadata == report.metadata.job
    IN  str_join("_", <<str(job_metadata.uid), str(job_metadata.jobid)>>)

mdf_header ==
    <<"run_time", "start_time_nsec", "start_time_sec", "end_time_nsec",
      "end_time_sec", "jobid", "uid", "log_ver", "metadata", "nprocs", "exe">>

\* Mutant: exe is put first instead of last.
metadata_values_exe_first(report) ==
    <<report.metadata.exe>>
        \o [i \in 1..(Len(mdf_header) - 1) |-> report.metadata.job[mdf_header[i]]]

\* The list `values` built for one report.
metadata_values(report) ==
    [i \in 1..(Len(mdf_header) - 1) |-> report.metadata.job[mdf_header[i]]]
        \o <<report.metadata.exe>>

\* metadata_df.loc[report_name] = values: the values go to the columns by
\* position.
df_set_row(df, report_name, values) ==
    [df EXCEPT
       !.index = IF report_name \in DOMAIN df.rows THEN @
                 ELSE Append(@, report_name),
       !.rows = DictSet(@, report_name,
                    [c \in SeqRange(mdf_header) |->
                        values[CHOOSE i \in 1..Len(mdf_header) :
                                   mdf_header[i] = c]])]

RECURSIVE move_metadata_loop(_, _, _)
move_metadata_loop(report_data, i, metadata_df) ==
    IF i > Len(report_data.keys) THEN metadata_df
    ELSE LET report_name == report_data.keys[i]
             report == report_data.val[report_name]
             values == metadata_values(report)
         IN  IF report_name \in SeqRange(metadata_df.index)
             THEN [metadata_df EXCEPT !.raised = TRUE]
             ELSE move_metadata_loop(report_data, i + 1,
                      df_set_row(metadata_df, report_name, values))

move_metadata_into_dataframe(report_data) ==
    move_metadata_loop(report_data, 1,
        [raised |-> FALSE, built |-> TRUE, index |-> <<>>, rows |-> EmptyDict])

(***************************************************************************)
(* SpecMeta: move_metadata_into_dataframe on every small batch mapping.    *)
(***************************************************************************)
\* Most trace files of a batch.
MaxFiles == 2

\* report.metadata of a trace: every field its own value.
JobMeta(uid, jobid, base) ==
    [job |-> [run_time |-> base + 1, start_time_nsec |-> base + 2,
              start_time_sec |-> base + 3, end_time_nsec |-> base + 4,
              end_time_sec |-> base + 5, jobid |-> jobid, uid |-> uid,
              log_ver |-> base + 8, metadata |-> base + 9,
              nprocs |-> base + 10],
     exe |-> base + 11]

Uids == {1, 2}
JobIds == {42, 43}

MetaReports ==
    {[metadata |-> JobMeta(u, j, b)] : u \in Uids, j \in JobIds, b \in {100, 200, 300}}

\* The batch mapping aggregate_darshan builds from a list of reports.
RECURSIVE BatchOf(_)
BatchOf(reports) ==
    IF Len(reports) = 0 THEN EmptyOrderedDict
    ELSE LET last == reports[Len(reports)]
         IN  OrderedDictSet(BatchOf(SubSeq(reports, 1, Len(reports) - 1)),
                            generate_name_for_report(last), last)

InitMeta ==
    /\ call = "none"
    /\ arg \in {BatchOf(reports) : reports \in SeqsUpTo(MetaReports, MaxFiles)}
    /\ ret = None
    /\ RunIdle

MoveMetadata ==
    /\ call = "none"
    /\ call' = "move_metadata_into_dataframe"
    /\ ret' = move_metadata_into_dataframe(arg)
    /\ UNCHANGED <<arg, run_vars>>

NextMeta == MoveMetadata

SpecMeta == InitMeta /\ [][NextMeta]_vars

JobColumns ==
    {"run_time", "start_time_nsec", "start_time_sec", "end_time_nsec",
     "end_time_sec", "jobid", "uid", "log_ver", "metadata", "nprocs"}

\* C10: the table built from a batch mapping of n jobs has exactly n rows,
\* one per job and keyed by the job's name, in the order of the mapping; in
\* each row the ten job columns hold the same-named field of that job's
\* metadata.job, and exe holds its metadata.exe; the row has no other column.
C10_RowsAligned ==
    call = "move_metadata_into_dataframe" =>
        /\ ~ret.raised
        /\ ret.index = arg.keys
        /\ Len(ret.index) = Cardinality(DOMAIN arg.val)
        /\ DOMAIN ret.rows = DOMAIN arg.val
        /\ \A name \in DOMAIN arg.val :
               /\ name = generate_name_for_report(arg.val[name])
               /\ DOMAIN ret.rows[name] = JobColumns \cup {"exe"}
               /\ \A c \in JobColumns :
                      ret.rows[name][c] = arg.val[name].metadata.job[c]
               /\ ret.rows[name]["exe"] = arg.val[name].metadata.exe

\* C10 witness: a table of two rows has been built from two jobs.
C10_Witness ==
    /\ call = "move_metadata_into_dataframe"
    /\ Len(arg.keys) = 2
    /\ Len(ret.index) = 2
    /\ ret.rows[arg.keys[1]]["exe"] # ret.rows[arg.keys[2]]["exe"]
    /\ ret.rows[arg.keys[1]]["uid"] # ret.rows[arg.keys[2]]["uid"]


(***************************************************************************)
(* read_log: the body of the `with darshan.DarshanReport(...)` block.      *)
(* A trace is [metadata, modules, records]; the result carries the output  *)
(* dict, the record-loading calls issued and what was printed.             *)
(***************************************************************************)
expected_modules ==
    {"POSIX", "LUSTRE", "STDIO", "DXT_POSIX", "HEATMAP", "MPI-IO", "DXT_MPIIO"}

LoadCall(fn, m) == [fn |-> fn, module |-> m]

\* One `if "<M>" in modules` block that builds a counters collection.
read_counters_module(st, trace, m, fn, key) ==
    IF m \in trace.modules
    THEN [st EXCEPT
            !.loads = Append(@, LoadCall(fn, m)),
            !.colls = DictSet(@, key, construct(key, trace.records[m])),
            !.loaded_modules = Append(@, key)]
    ELSE st

\* The `if "DXT_POSIX" in modules` block.
read_dxt_posix_module(st, trace) ==
    IF "DXT_POSIX" \in trace.modules
    THEN LET pos == trace.records["DXT_POSIX"]
             coll == DXT_POSIX_coll(pos)
         IN  IF coll.raised
             THEN [st EXCEPT
                     !.raised = TRUE,
                     !.loads = Append(@, LoadCall("mod_read_all_dxt_records",
                                                  "DXT_POSIX"))]
             ELSE [st EXCEPT
                     !.loads = Append(@, LoadCall("mod_read_all_dxt_records",
                                                  "DXT_POSIX")),
                     !.colls = DictSet(@, "DXT_POSIX_coll_object", coll),
                     !.loaded_modules = Append(@, "DXT_POSIX_coll_object")]
    ELSE st

\* One `if "<M>" in modules` block that loads and prints the records.
read_printed_module(st, trace, m, fn) ==
    IF ~st.raised /\ m \in trace.modules
    THEN [st EXCEPT
            !.loads = Append(@, LoadCall(fn, m)),
            !.prints = Append(@, [msg |-> "records", module |-> m])]
    ELSE st

read_log_body(trace) ==
    LET modules == trace.modules
        unexpected == {m \in modules : m \notin expected_modules}
        warn(m) == [msg |-> "unexpected module found", module |-> m]
        s0 == [raised |-> FALSE,
               metadata |-> trace.metadata,
               modules |-> modules,
               loaded_modules |-> <<>>,
               colls |-> EmptyDict,
               loads |-> <<>>,
               \* the warnings, one per unexpected module
               prints |-> IF unexpected = {} THEN <<>>
                          ELSE LET f == CHOOSE f \in [1..Cardinality(unexpected)
                                                       -> unexpected] :
                                            \A i, j \in DOMAIN f :
                                                f[i] = f[j] => i = j
                               IN  [i \in DOMAIN f |-> warn(f[i])]]
        s1 == read_counters_module(s0, trace, "POSIX", "mod_read_all_records",
                                   "POSIX_coll")
        s2 == read_counters_module(s1, trace, "LUSTRE",
                                   "mod_read_all_lustre_records", "LUSTRE_coll")
        s3 == read_counters_module(s2, trace, "STDIO", "mod_read_all_records",
                                   "STDIO_coll")
        s4 == read_dxt_posix_module(s3, trace)
        s5 == read_printed_module(s4, trace, "MPI-IO", "mod_read_all_records")
        s6 == read_printed_module(s5, trace, "DXT_MPIIO",
                                  "mod_read_all_dxt_records")
    IN  s6

(***************************************************************************)
(* write_to_parquet                                                        *)
(***************************************************************************)
os_path_exists(o) == o.kind \in {"file", "dir"}
os_path_isdir(o) == o.kind = "dir"

\* os.mkdir(o): one level only, so it needs the parent directory.
os_mkdir(o) ==
    IF o.kind = "missing"
    THEN [raised |-> FALSE, out |-> [kind |-> "dir", files |-> EmptyDict]]
    ELSE [raised |-> TRUE, error |-> "mkdir failed", out |-> o]

\* Mutant: a path that is not a directory is taken as the output directory.
check_output_dir_nocheck(o) ==
    IF os_path_exists(o) THEN [raised |-> FALSE, out |-> o]
    ELSE os_mkdir(o)

\* The output directory handling at the head of write_to_parquet.
check_output_dir(o) ==
    IF os_path_exists(o) /\ ~os_path_isdir(o)
    THEN [raised |-> TRUE, error |-> "not a directory", out |-> o]
    ELSE IF os_path_exists(o)
    THEN [raised |-> FALSE, out |-> o]
    ELSE os_mkdir(o)

\* The output location after the file writes ws.
RECURSIVE apply_writes(_, _)
apply_writes(o, ws) ==
    IF Len(ws) = 0 THEN o
    ELSE apply_writes(
             [o EXCEPT !.files = DictSet(@, Head(ws).path.name, Head(ws).table)],
             Tail(ws))

\* The inner loop of write_to_parquet for one report: the export_parquet
\* invocations and the file writes they perform.
RECURSIVE export_report(_, _, _, _)
export_report(report, output_dir, report_name, i) ==
    IF i > Len(report.loaded_modules)
    THEN [exports |-> <<>>, writes |-> <<>>]
    ELSE LET module_name == report.loaded_modules[i]
             rest == export_report(report, output_dir, report_name, i + 1)
         IN  [exports |->
                  <<[coll |-> module_name, directory |-> output_dir,
                     prefix |-> report_name]>> \o rest.exports,
              writes |->
                  export_parquet(report.colls[module_name], output_dir,
                                 report_name) \o rest.writes]


(***************************************************************************)
(* The inputs of a run of aggregate_darshan.                               *)
(***************************************************************************)
OutputDir == "parquet"

Letters == <<"a", "b", "c", "d">>

\* The i-th trace file of the input directory: a.darshan, b.darshan, ...
TraceName(i) == <<Letters[i]>> \o DotDarshan

\* The input directory with n trace files: they come in listing order
\* between an unfinished trace and a sub-directory.
RunListing(n) ==
    << [name |-> <<"p">> \o DotDarshan
                     \o <<"_", "p", "a", "r", "t", "i", "a", "l">>,
        kind |-> "file"] >>
    \o [i \in 1..n |-> [name |-> TraceName(i), kind |-> "file"]]
    \o << [name |-> <<"x">> \o DotDarshan, kind |-> "dir"] >>

RunModuleSets ==
    { {},
      {"POSIX", "LUSTRE"},
      {"STDIO", "HEATMAP", "H5F"},
      {"LUSTRE", "DXT_POSIX"},
      {"POSIX", "MPI-IO", "DXT_MPIIO"},
      expected_modules \cup {"H5F"} }

CounterModules == {"POSIX", "LUSTRE", "STDIO"}

RecA == [rank |-> 0, id |-> 7, counters |-> "cA", fcounters |-> "fA"]
RecB == [rank |-> -1, id |-> 8, counters |-> "cB", fcounters |-> "fB"]

RunRecLists == {<<RecA>>, <<RecA, RecB>>}

DxtA ==
    [id |-> 7, rank |-> 0, hostname |-> "h1", read_count |-> 1,
     write_count |-> 2, read_segments |-> "rA", write_segments |-> "wA"]
DxtB ==
    [id |-> 7, rank |-> 1, hostname |-> "h2", read_count |-> 2,
     write_count |-> 1, read_segments |-> "rB", write_segments |-> "wB"]

\* One DXT record, or two records sharing an id.
RunDxtLists == {<<DxtA>>, <<DxtA, DxtB>>}

\* What a trace file may hold: nothing the library can open, or a job id,
\* a set of modules and their records.
TraceChoices ==
    {[corrupt |-> TRUE]}
    \cup UNION {
        {[corrupt |-> FALSE, jobid |-> j, modules |-> ms, recs |-> r, dxt |-> d] :
            j \in JobIds,
            r \in (IF ms \cap CounterModules = {} THEN {<<>>} ELSE RunRecLists),
            d \in (IF "DXT_POSIX" \in ms THEN RunDxtLists ELSE {<<>>})} :
        ms \in RunModuleSets}

\* The i-th trace file's content.
TraceOf(i, ch) ==
    IF ch.corrupt THEN [corrupt |-> TRUE]
    ELSE [corrupt |-> FALSE,
          metadata |-> JobMeta(1, ch.jobid, 100 * i),
          modules |-> ch.modules,
          records |-> [m \in ch.modules |->
                          IF m = "DXT_POSIX" THEN ch.dxt
                          ELSE IF m \in CounterModules THEN ch.recs
                          ELSE <<>>]]

StaleTable == [stale |-> TRUE]

\* The output path before the run: its parent directory is missing, it is
\* missing, it is a regular file, or it is a directory holding an old
\* metadata.parquet and another file.
OutStates ==
    { [kind |-> "noparent", files |-> EmptyDict],
      [kind |-> "missing", files |-> EmptyDict],
      [kind |-> "file", files |-> EmptyDict],
      [kind |-> "dir",
       files |-> [f \in {"metadata.parquet", "old.parquet"} |-> StaleTable]] }

NoTable == [raised |-> FALSE, built |-> FALSE, index |-> <<>>, rows |-> EmptyDict]

Init ==
    /\ call = "none"
    /\ arg = None
    /\ ret = None
    /\ pc = "start"
    /\ \E n \in 0..MaxFiles : \E ch \in [1..n -> TraceChoices] :
          /\ traces =
                 [nm \in {TraceName(i) : i \in 1..n} |->
                     LET i == CHOOSE k \in 1..n : TraceName(k) = nm
                     IN  TraceOf(i, ch[i])]
          /\ agg_directory \in
                 {[kind |-> "dir", listing |-> RunListing(n)]}
                 \cup (IF n = 0
                       THEN [kind : {"missing", "file"}, listing : {<<>>}]
                       ELSE {})
    /\ out0 \in OutStates
    /\ out = out0
    /\ agg_files = <<>>
    /\ fi = 0
    /\ open = {}
    /\ opened = <<>>
    /\ collected_report_data = EmptyOrderedDict
    /\ agg_metadata_df = NoTable
    /\ loads = <<>>
    /\ prints = <<>>
    /\ exports = <<>>
    /\ writes = <<>>
    /\ error = "none"
    /\ wi = 0

(***************************************************************************)
(* aggregate_darshan, step by step.                                        *)
(***************************************************************************)
Fail(e) == pc' = "failed" /\ error' = e

\* Mutant: the output directory is prepared before the scan.
CollectLogfiles_mkdir ==
    /\ pc = "start"
    /\ out' = check_output_dir(out).out
    /\ LET r == collect_logfiles(agg_directory)
       IN  IF r.raised
           THEN /\ Fail(r.error)
                /\ UNCHANGED <<agg_files, fi>>
           ELSE /\ agg_files' = r.logfiles
                /\ fi' = 1
                /\ pc' = IF Len(r.logfiles) = 0 THEN "metadata" ELSE "open"
                /\ UNCHANGED error
    /\ UNCHANGED <<unit_vars, agg_directory, traces, out0, open, opened,
                   collected_report_data, agg_metadata_df, loads, prints,
                   exports, writes, wi>>

\* files = collect_logfiles(directory, debug)
CollectLogfiles ==
    /\ pc = "start"
    /\ LET r == collect_logfiles(agg_directory)
       IN  IF r.raised
           THEN /\ Fail(r.error)
                /\ UNCHANGED <<agg_files, fi>>
           ELSE /\ agg_files' = r.logfiles
                /\ fi' = 1
                /\ pc' = IF Len(r.logfiles) = 0 THEN "metadata" ELSE "open"
                /\ UNCHANGED error
    /\ UNCHANGED <<unit_vars, agg_directory, traces, out, out0, open, opened,
                   collected_report_data, agg_metadata_df, loads, prints,
                   exports, writes, wi>>

\* read_log up to the opening of the report: the path checks and
\* darshan.DarshanReport(filename, read_all=False).
OpenReport ==
    /\ pc = "open"
    /\ LET f == agg_files[fi]
       IN  IF f \notin DOMAIN traces
           THEN Fail("does not exist") /\ UNCHANGED <<open, opened>>
           ELSE IF traces[f].corrupt
           THEN Fail("cannot open") /\ UNCHANGED <<open, opened>>
           ELSE /\ open' = open \cup {f}
                /\ opened' = Append(opened, f)
                /\ pc' = "read"
                /\ UNCHANGED error
    /\ UNCHANGED <<unit_vars, agg_directory, traces, out, out0, agg_files, fi,
                   collected_report_data, agg_metadata_df, loads, prints,
                   exports, writes, wi>>

\* Mutant: the report is closed by a call at the end of the block, which an
\* exception skips.
with_exit_leak(reports, f, raised) ==
    IF raised THEN reports ELSE reports \ {f}

\* The exit of `with darshan.DarshanReport(...) as report`: the report is
\* closed, whether the block ended normally or by an exception.
with_exit(reports, f, raised) == reports \ {f}

\* read_log from there on: the body of the with block, its exit (which
\* closes the report, also on an exception) and the return; then the loop
\* body of aggregate_darshan: the name and the insertion in the batch.
ReadModules ==
    /\ pc = "read"
    /\ LET f == agg_files[fi]
           r == read_log_body(traces[f])
           tmp_report_data ==
               [metadata |-> r.metadata, modules |-> r.modules,
                loaded_modules |-> r.loaded_modules, colls |-> r.colls,
                report |-> f]
           tmp_name == generate_name_for_report(tmp_report_data)
       IN  /\ open' = with_exit(open, f, r.raised)
           /\ loads' = loads \o [i \in 1..Len(r.loads) |->
                                    [file |-> f, fn |-> r.loads[i].fn,
                                     module |-> r.loads[i].module]]
           /\ prints' = prints \o r.prints
           /\ IF r.raised
              THEN /\ Fail("record IDs are not unique")
                   /\ UNCHANGED <<collected_report_data, fi>>
              ELSE /\ collected_report_data' =
                          OrderedDictSet(collected_report_data, tmp_name,
                                         tmp_report_data)
                   /\ fi' = fi + 1
                   /\ pc' = IF fi = Len(agg_files) THEN "metadata" ELSE "open"
                   /\ UNCHANGED error
    /\ UNCHANGED <<unit_vars, agg_directory, traces, out, out0, agg_files, opened,
                   agg_metadata_df, exports, writes, wi>>

\* metadata_df = move_metadata_into_dataframe(collected_report_data, debug)
BuildMetadata ==
    /\ pc = "metadata"
    /\ LET r == move_metadata_into_dataframe(collected_report_data)
       IN  IF r.raised
           THEN Fail("name is not unique") /\ UNCHANGED agg_metadata_df
           ELSE /\ agg_metadata_df' = r
                /\ pc' = "write"
                /\ UNCHANGED error
    /\ UNCHANGED <<unit_vars, agg_directory, traces, out, out0, agg_files, fi,
                   open, opened, collected_report_data, loads, prints, exports,
                   writes, wi>>

\* write_to_parquet up to the writing of metadata.parquet.
WriteMetadata ==
    /\ pc = "write"
    /\ LET d == check_output_dir(out)
           w == to_parquet(agg_metadata_df,
                           os_path_join(OutputDir, "metadata.parquet"))
       IN  IF d.raised
           THEN /\ Fail(d.error)
                /\ UNCHANGED <<out, writes, wi>>
           ELSE /\ out' = apply_writes(d.out, <<w>>)
                /\ writes' = Append(writes, w)
                /\ wi' = 1
                /\ pc' = IF Len(collected_report_data.keys) = 0
                         THEN "done" ELSE "export"
                /\ UNCHANGED error
    /\ UNCHANGED <<unit_vars, agg_directory, traces, out0, agg_files, fi, open, opened,
                   collected_report_data, agg_metadata_df, loads, prints,
                   exports>>

\* One round of `for report_name in list(report_data.keys())`.
ExportReport ==
    /\ pc = "export"
    /\ LET report_name == collected_report_data.keys[wi]
           report == collected_report_data.val[report_name]
           e == export_report(report, OutputDir, report_name, 1)
       IN  /\ exports' = exports \o e.exports
           /\ writes' = writes \o e.writes
           /\ out' = apply_writes(out, e.writes)
           /\ wi' = wi + 1
           /\ pc' = IF wi = Len(collected_report_data.keys)
                    THEN "done" ELSE "export"
    /\ UNCHANGED <<unit_vars, agg_directory, traces, out0, agg_files, fi, open, opened,
                   collected_report_data, agg_metadata_df, loads, prints,
                   error>>

Next ==
    \/ CollectLogfiles
    \/ OpenReport
    \/ ReadModules
    \/ BuildMetadata
    \/ WriteMetadata
    \/ ExportReport

Spec == Init /\ [][Next]_vars


(***************************************************************************)
(* Claims about a run of aggregate_darshan.                                *)
(***************************************************************************)
\* The name generated for trace file f.
JobNameOf(f) == generate_name_for_report(traces[f])

\* Two trace files of the batch, both read, generate the same name.
ReadCollision ==
    \E i, j \in 1..Len(agg_files) :
        /\ i < j
        /\ j < fi
        /\ JobNameOf(agg_files[i]) = JobNameOf(agg_files[j])

\* C1: when two trace files of the batch generate the same job name the
\* run fails with the duplicate-name error and writes nothing: it never gets
\* as far as writing a file or completing, and in particular never
\* completes with fewer metadata rows than there are trace files.
C1_DuplicateNameFatal ==
    ReadCollision =>
        /\ pc \notin {"export", "done"}
        /\ writes = <<>>
        /\ out = out0

\* C2: nothing is output (the output location is as it was before the run,
\* no file has been written, no export invoked) before every trace file of
\* the scan has been read and the metadata table built; a run that failed in
\* the scan, in reading a file or in building the table has left the output
\* location as it was.
C2_NoOutputBeforeTableBuilt ==
    /\ pc \in {"start", "open", "read", "metadata", "write"} =>
           out = out0 /\ writes = <<>> /\ exports = <<>>
    /\ (out # out0 \/ writes # <<>> \/ exports # <<>>) =>
           /\ agg_metadata_df.built
           /\ fi = Len(agg_files) + 1
           /\ open = {}
    /\ (pc = "failed" /\ error \in {"not_exist", "not_dir", "does not exist",
                                    "cannot open", "record IDs are not unique",
                                    "name is not unique"}) =>
           out = out0 /\ writes = <<>> /\ exports = <<>>

\* C2 witness: the second file of the batch failed on a repeated DXT id
\* after the first was read, and the output directory, which existed, is as
\* it was.
C2_Witness ==
    /\ pc = "failed"
    /\ error = "record IDs are not unique"
    /\ fi = 2
    /\ Len(collected_report_data.keys) = 1
    /\ out0.kind = "dir"
    /\ out = out0

\* C3: read_log issues no record-loading call for DXT_POSIX, DXT_MPIIO or
\* HEATMAP, and no report's loaded_modules holds a collection built from
\* them.
C3_NoDxtNoHeatmapLoaded ==
    /\ \A i \in 1..Len(loads) :
           loads[i].module \notin {"DXT_POSIX", "DXT_MPIIO", "HEATMAP"}
    /\ \A name \in DOMAIN collected_report_data.val :
           "DXT_POSIX_coll_object"
               \notin SeqRange(collected_report_data.val[name].loaded_modules)

\* The files a module of a trace is to contribute under a prefix.
ModuleFiles(trace, m, prefix) ==
    IF m \in CounterModules
    THEN {ExpectedFile(OutputDir, m, prefix,
                       <<trace.records[m][i].rank, trace.records[m][i].id>>,
                       kind) :
             i \in 1..Len(trace.records[m]),
             kind \in (IF m = "LUSTRE" THEN {"counters"}
                       ELSE {"counters", "fcounters"})}
    ELSE IF m = "DXT_POSIX"
    THEN {[dir |-> OutputDir,
           name |-> "DXTPOSIX_" \o prefix \o "_"
                        \o ToString(trace.records[m][i].id) \o "_"
                        \o ToString(trace.records[m][i].rank) \o "_"
                        \o trace.records[m][i].hostname \o "_" \o kind
                        \o ".parquet"] :
             i \in 1..Len(trace.records[m]),
             kind \in {"read_segments", "write_segments"}}
    ELSE {}

TraceFiles(f) ==
    UNION {ModuleFiles(traces[f], m, JobNameOf(f)) : m \in traces[f].modules}

MetadataFile == [dir |-> OutputDir, name |-> "metadata.parquet"]

WrittenFiles == {writes[i].path : i \in 1..Len(writes)}

\* C8: after a successful run the set of files written is exactly
\* metadata.parquet plus, for each trace file of the batch and each of
\* POSIX, LUSTRE, STDIO and DXT_POSIX present in it, that module's
\* per-identity files; no other module contributes a file.
C8_FilesWritten ==
    pc = "done" =>
        WrittenFiles = {MetadataFile} \cup UNION {TraceFiles(agg_files[i]) :
                                                    i \in 1..Len(agg_files)}

\* C8 restricted to batches whose generated names are pairwise distinct.
C8_FilesWrittenDistinctNames ==
    (pc = "done" /\ ~ReadCollision) =>
        WrittenFiles = {MetadataFile} \cup UNION {TraceFiles(agg_files[i]) :
                                                    i \in 1..Len(agg_files)}

\* write_to_parquet has been entered and has got past its first lines.
PastOutputDir ==
    \/ pc \in {"export", "done"}
    \/ pc = "failed" /\ error \in {"not a directory", "mkdir failed"}

\* The export_parquet invocations due for the reports from the i-th on.
RECURSIVE ExportsDue(_)
ExportsDue(i) ==
    IF i > Len(collected_report_data.keys) THEN <<>>
    ELSE LET name == collected_report_data.keys[i]
             lm == collected_report_data.val[name].loaded_modules
         IN  [k \in 1..Len(lm) |->
                 [coll |-> lm[k], directory |-> OutputDir, prefix |-> name]]
             \o ExportsDue(i + 1)

\* What holds of a write_to_parquet that did not fail: metadata.parquet is
\* written first, with the metadata table; the directory's other files are
\* kept; at the end export_parquet has been invoked once for every report of
\* the batch and every entry of its loaded_modules, in order, with the
\* output directory and the report's name.
OutputWritten ==
    /\ pc # "failed"
    /\ out.kind = "dir"
    /\ writes[1] = [path |-> MetadataFile, table |-> agg_metadata_df]
    /\ \A i \in 2..Len(writes) : writes[i].path # MetadataFile
    /\ out.files["metadata.parquet"] = agg_metadata_df
    /\ \A n \in DOMAIN out.files :
           \/ [dir |-> OutputDir, name |-> n] \in WrittenFiles
           \/ n \in DOMAIN out0.files /\ out.files[n] = out0.files[n]
    /\ \A n \in DOMAIN out0.files : n \in DOMAIN out.files
    /\ pc = "done" => exports = ExportsDue(1)

OutputUntouched(e) ==
    /\ pc = "failed"
    /\ error = e
    /\ out = out0
    /\ writes = <<>>
    /\ exports = <<>>

\* C9 as stated: an output path that exists and is not a directory makes
\* the call fail before anything is written or created; one that does not
\* exist is created; an existing directory is used as is; in the last two
\* cases metadata.parquet is written first and the exports follow.
C9_OutputDirHandling ==
    PastOutputDir =>
        CASE out0.kind = "file" -> OutputUntouched("not a directory")
          [] out0.kind \in {"missing", "noparent"} -> OutputWritten
          [] out0.kind = "dir" -> OutputWritten

\* C9 as amended: as stated, except that a missing output path is created
\* by one os.mkdir, so only when its parent directory exists; when the parent
\* is missing too the call fails on the mkdir before anything is written or
\* created.
C9_OutputDirHandlingMkdir ==
    PastOutputDir =>
        CASE out0.kind = "file" -> OutputUntouched("not a directory")
          [] out0.kind = "missing" -> OutputWritten
          [] out0.kind = "noparent" -> OutputUntouched("mkdir failed")
          [] out0.kind = "dir" -> OutputWritten

\* C9 witness: the output path was missing, it has been created, and a run
\* of two reports has written the metadata and invoked at least two exports.
C9_Witness ==
    /\ pc = "done"
    /\ out0.kind = "missing"
    /\ out.kind = "dir"
    /\ Len(collected_report_data.keys) = 2
    /\ Len(exports) >= 2
    /\ writes[1].path = MetadataFile

\* C11: during a run of aggregate_darshan at most one report is open at any
\* moment. A report is open only while its own file is being read: it is
\* closed before the next file is opened, before any output is written or
\* created, and when the read fails part-way. The files are opened one by
\* one in the order the scan returned them.
C11_OneReportOpen ==
    /\ Cardinality(open) <= 1
    /\ pc = "read" => open = {agg_files[fi]}
    /\ pc # "read" => open = {}
    /\ (writes # <<>> \/ exports # <<>> \/ out # out0) => open = {}
    /\ Len(opened) <= Len(agg_files)
    /\ opened = SubSeq(agg_files, 1, Len(opened))
    /\ pc \in {"open", "read"} => Len(opened) = IF pc = "read" THEN fi ELSE fi - 1

\* C11 witness: the second of two files has been opened after the first
\* and its read has failed on a duplicate detailed-segment id; no report is
\* left open.
C11_Witness ==
    /\ pc = "failed"
    /\ error = "record IDs are not unique"
    /\ fi = 2
    /\ Len(opened) = 2
    /\ Len(collected_report_data.keys) = 1
    /\ open = {}

=============================================================================
